---- MODULE Spec2Model ----
(***************************************************************************)
(* Model of Oryol::_priv::animMgr (src/src/Anim/private/animMgr.cc): the   *)
(* animation resource manager with its dense clip / curve / matrix / key   *)
(* pools, the views (offset + length) that libraries, clips and skeletons  *)
(* hold into them, and the label driven destroy path that compacts the     *)
(* pools and rewrites the surviving views.                                 *)
(***************************************************************************)
EXTENDS Integers, Sequences, FiniteSets, TLC

\* ------------------------------------------------------------------ bounds
\* AnimSetup values used by setup(); small so that every pool can be filled.
MaxNumLibs == 3
MaxNumSkeletons == 2
MaxNumInstances == 2
MaxNumActiveInstances == 2
ClipPoolCapacity == 4
CurvePoolCapacity == 5
MatrixPoolCapacity == 4
KeyPoolCapacity == 5
SamplePoolCapacity == 3
\* caps on the unbounded counters (handle stamps, label counter)
MaxLibIds == 3
MaxSkelIds == 2
MaxInstIds == 2
MaxLabels == 1
MaxLabelLibIds == 2
MaxLabelInstIds == 1
\* the playback clock stays within -MaxTime..MaxTime
MaxTime == 2
\* width of AnimJobId in bits
JobIdBits == 2

\* ------------------------------------------------------- program constants
resTypeLib == 1
resTypeInstance == 2
resTypeSkeleton == 3
InvalidIndex == -1
\* label values of the resource registry
LabelAll == -1
LabelDefault == 0
\* content of a float that was allocated but never written
Garbage == -1
\* content of a float the sequencer wrote as a sample
Sampled == -2
InvalidAnimJobId == 0

\* ---------------------------------------------------------------- helpers
Range(f) == {f[x] : x \in DOMAIN f}

RECURSIVE SumSeq(_)
SumSeq(s) == IF s = <<>> THEN 0 ELSE Head(s) + SumSeq(Tail(s))

\* s without the elements at 0-based positions [off, off+len)
EraseRange(s, off, len) ==
    [i \in 1..(Len(s) - len) |-> IF i <= off THEN s[i] ELSE s[i + len]]

\* ------------------------------------------------------------------ Slice
MakeSlice(off, len) == [off |-> off, len |-> len]
EmptySlice == MakeSlice(0, 0)
SliceEnd(v) == v.off + v.len

\* a view that begins at or after the end of the gap moves down by the gap
FillGap(v, gapOffset, gapSize) ==
    IF v.off >= gapOffset + gapSize THEN [v EXCEPT !.off = @ - gapSize] ELSE v

\* the elements of pool (a sequence) a view designates
Through(pool, v) == [i \in 1..v.len |-> pool[v.off + i]]

\* -------------------------------------------------------- AnimCurveFormat
Stride(fmt) ==
    CASE fmt = "Float"  -> 1
      [] fmt = "Float2" -> 2
      [] fmt = "Float3" -> 3
      [] fmt = "Float4" -> 4

\* --------------------------------------------------------------------- Id
InvalidId == [Type |-> 0, SlotIndex |-> InvalidIndex, UniqueStamp |-> 0]
MakeId(type, slot, stamp) == [Type |-> type, SlotIndex |-> slot, UniqueStamp |-> stamp]
IsValidId(id) == id # InvalidId

\* ------------------------------------------------------------- resources
NewLibrary ==
    [Id |-> InvalidId, State |-> "Initial", Name |-> "", SampleStride |-> 0,
     CurveLayout |-> <<>>, Clips |-> EmptySlice, Curves |-> EmptySlice,
     Keys |-> EmptySlice, ClipIndexMap |-> {}]

NewSkeleton ==
    [Id |-> InvalidId, State |-> "Initial", Name |-> "", NumBones |-> 0,
     Matrices |-> EmptySlice, BindPose |-> EmptySlice, InvBindPose |-> EmptySlice,
     ParentIndices |-> <<>>]

NewInstance ==
    [Id |-> InvalidId, State |-> "Initial", library |-> InvalidIndex,
     skeleton |-> InvalidIndex, samples |-> EmptySlice,
     skinMatrices |-> EmptySlice]

NewClip ==
    [Name |-> "", Length |-> 0, KeyDuration |-> 0, KeyStride |-> 0,
     Curves |-> EmptySlice, Keys |-> EmptySlice]

NewCurve ==
    [Static |-> FALSE, Format |-> "Invalid", NumValues |-> 0,
     StaticValue |-> <<0, 0, 0, 0>>, KeyIndex |-> InvalidIndex, KeyStride |-> 0]

\* ----------------------------------------------------------- ResourcePool
PoolSetup(empty, n) ==
    [slots |-> [i \in 0..(n - 1) |-> empty],
     freeSlots |-> [i \in 1..n |-> i - 1],
     LastAllocSlot |-> InvalidIndex,
     uniqueCounter |-> 0]

PoolDiscarded == [slots |-> <<>>, freeSlots |-> <<>>,
                  LastAllocSlot |-> InvalidIndex, uniqueCounter |-> 0]

\* the id AllocId hands out next
PoolNextId(pool, type) ==
    MakeId(type, Head(pool.freeSlots), pool.uniqueCounter + 1)

\* AllocId followed by Assign(id, Setup) of a fresh resource
PoolAllocAssign(pool, type, res) ==
    LET id == PoolNextId(pool, type) IN
    [pool EXCEPT !.freeSlots = Tail(@),
                 !.uniqueCounter = @ + 1,
                 !.LastAllocSlot = IF id.SlotIndex > @ THEN id.SlotIndex ELSE @,
                 !.slots[id.SlotIndex] = [res EXCEPT !.Id = id, !.State = "Setup"]]

PoolUpdateState(pool, id, state) ==
    [pool EXCEPT !.slots[id.SlotIndex].State = state]

\* pointer to the slot (its index) or InvalidIndex for "nullptr"
PoolLookup(pool, id) ==
    IF /\ id.SlotIndex \in DOMAIN pool.slots
       /\ pool.slots[id.SlotIndex].Id = id
       /\ pool.slots[id.SlotIndex].State = "Valid"
    THEN id.SlotIndex ELSE InvalidIndex

PoolUnassign(pool, id, empty) ==
    IF id.SlotIndex \in DOMAIN pool.slots /\ pool.slots[id.SlotIndex].Id = id
    THEN [pool EXCEPT !.slots[id.SlotIndex] = empty,
                      !.freeSlots = Append(@, id.SlotIndex)]
    ELSE pool

NumUsedSlots(pool) == Cardinality(DOMAIN pool.slots) - Len(pool.freeSlots)

\* the slots a fixup loop visits: 0..LastAllocSlot with a valid Id
LiveSlots(pool) ==
    {i \in DOMAIN pool.slots : i <= pool.LastAllocSlot /\ IsValidId(pool.slots[i].Id)}

\* ------------------------------------------------------- ResourceRegistry
RegLookup(reg, name) ==
    IF \E i \in 1..Len(reg) : reg[i].name = name
    THEN reg[CHOOSE i \in 1..Len(reg) : reg[i].name = name].id
    ELSE InvalidId

RegAdd(reg, name, id, label) == Append(reg, [name |-> name, id |-> id, label |-> label])

RegMatches(e, label) == label = LabelAll \/ e.label = label

\* the ids Remove(label) returns, and the registry it leaves
RegRemoved(reg, label) == SelectSeq(reg, LAMBDA e : RegMatches(e, label))
RegKept(reg, label) == SelectSeq(reg, LAMBDA e : ~RegMatches(e, label))

\* locator of a resource that is never shared (instances)
NonShared == "_non_shared"

\* ------------------------------------------------------------------ inputs
LocatorSeq == <<"a", "b", "c">>
Locators == Range(LocatorSeq)
SkelLocators == {"c", "s"}

Animated == [Static |-> FALSE, StaticValue |-> <<1, 2, 3, 4>>]
Constant == [Static |-> TRUE, StaticValue |-> <<5, 6, 7, 8>>]
Animated2 == [Static |-> FALSE, StaticValue |-> <<9, 10, 11, 12>>]
ClipSetup(name, length, curves) ==
    [Name |-> name, Length |-> length, KeyDuration |-> 1, Curves |-> curves]

\* AnimLibrarySetup values the environment passes to createLibrary:
\*   1: one animated Float2 clip                (1 clip, 1 curve, 2 keys)
\*   2: two clips over <<Float, Float2>>, the second all static
\*                                              (2 clips, 4 curves, 2 keys)
\*   3: one all-static clip                     (1 clip, 1 curve, 0 keys)
\*   4: a clip whose curve count differs from the layout's
\*   5: two animated Float clips                (2 clips, 2 curves, 3 keys)
\*   6: one clip with two animated curves       (1 clip, 2 curves, 3 keys)
\*   7: one clip of two rows, a static curve between two animated ones
\*                                              (1 clip, 3 curves, 4 keys)
LibSetups ==
    << [CurveLayout |-> <<"Float2">>,
        Clips |-> << ClipSetup("clip1", 1, <<Animated>>) >>],
       [CurveLayout |-> <<"Float", "Float2">>,
        Clips |-> << ClipSetup("clip1", 2, <<Animated, Constant>>),
                     ClipSetup("clip2", 1, <<Constant, Constant>>) >>],
       [CurveLayout |-> <<"Float">>,
        Clips |-> << ClipSetup("clip1", 1, <<Constant>>) >>],
       [CurveLayout |-> <<"Float", "Float2">>,
        Clips |-> << ClipSetup("clip1", 1, <<Animated>>) >>],
       [CurveLayout |-> <<"Float">>,
        Clips |-> << ClipSetup("clip1", 1, <<Animated>>),
                     ClipSetup("clip2", 2, <<Animated>>) >>],
       [CurveLayout |-> <<"Float", "Float2">>,
        Clips |-> << ClipSetup("clip1", 1, <<Animated, Animated2>>) >>],
       [CurveLayout |-> <<"Float", "Float2", "Float">>,
        Clips |-> << ClipSetup("clip1", 2, <<Animated, Constant, Animated2>>) >>] >>

\* the setups of the runs that fill and compact the pools
BasicSetups == 1..5

Bone(n) == [BindPose |-> <<"bind", n>>, InvBindPose |-> <<"inv", n>>, ParentIndex |-> n - 2]
SkelSetups == << <<Bone(1)>>, <<Bone(1), Bone(2)>> >>

\* the buffers handed to writeKeys for the library in a slot: len floats that
\* tell the library and the position
KeyBuffers(lib, len) == {[i \in 1..len |-> 10 * (lib + 1) + i]}

\* ------------------------------------------------------------------- state
VARIABLES
    isValid,      \* animMgr::isValid
    libPool,      \* ResourcePool<AnimLibrary>
    skelPool,     \* ResourcePool<AnimSkeleton>
    instPool,     \* ResourcePool<animInstance>
    clipPool,     \* Array<AnimClip>
    curvePool,    \* Array<AnimCurve>
    matrixPool,   \* Array<glm::mat4>
    numKeys,      \* length of the live prefix of the key region
    valuePool,    \* the float buffer: key region, then sample region
    registry,     \* resContainer.registry: (locator, id, label) entries
    labelStack,   \* resContainer label stack
    labelCounter, \* resContainer label counter
    inFrame,      \* animMgr::inFrame
    activeInstances, \* Array<animInstance*>, as instance pool slots
    numSamples,   \* floats of the sample region handed out this frame
    curTime,      \* animMgr::curTime
    curAnimJobId, \* animMgr::curAnimJobId
    frameViews,   \* history: the sample views handed out this frame
    framesOpened, \* history: newFrame calls since the last evaluate
    issuedJobIds, \* history: the job ids play returned for accepted jobs
    fault,        \* "none", or how the process left defined behaviour
    ret           \* the last call: operation, arguments and returned value

vars == <<isValid, libPool, skelPool, instPool, clipPool, curvePool, matrixPool,
          numKeys, valuePool, registry, labelStack, labelCounter, inFrame,
          activeInstances, numSamples, curTime, curAnimJobId, frameViews,
          framesOpened, issuedJobIds, fault, ret>>

\* the per-frame state and the playback clock
frameState == <<inFrame, activeInstances, numSamples, curTime, curAnimJobId,
                frameViews, framesOpened, issuedJobIds>>

\* the manager's storage as one value, for the operations' helpers
Mgr ==
    [libPool |-> libPool, skelPool |-> skelPool, instPool |-> instPool,
     clipPool |-> clipPool, curvePool |-> curvePool, matrixPool |-> matrixPool,
     numKeys |-> numKeys, valuePool |-> valuePool, registry |-> registry,
     fault |-> fault]

Becomes(m) ==
    /\ libPool' = m.libPool
    /\ skelPool' = m.skelPool
    /\ instPool' = m.instPool
    /\ clipPool' = m.clipPool
    /\ curvePool' = m.curvePool
    /\ matrixPool' = m.matrixPool
    /\ numKeys' = m.numKeys
    /\ valuePool' = m.valuePool
    /\ registry' = m.registry
    /\ fault' = m.fault

PeekLabel == labelStack[Len(labelStack)]

\* what the caller gets back: the operation that returned and its value; a call
\* that stopped the process returns nothing
Returned(op, result) == [op |-> op, result |-> result]
Aborted == [op |-> "abort", result |-> "none"]

\* a call that violates an assertion: the process stops
Violation ==
    /\ fault' = "abort"
    /\ ret' = Aborted

Init ==
    /\ isValid = FALSE
    /\ libPool = PoolDiscarded
    /\ skelPool = PoolDiscarded
    /\ instPool = PoolDiscarded
    /\ clipPool = <<>>
    /\ curvePool = <<>>
    /\ matrixPool = <<>>
    /\ numKeys = 0
    /\ valuePool = <<>>
    /\ registry = <<>>
    /\ labelStack = <<>>
    /\ labelCounter = 0
    /\ inFrame = FALSE
    /\ activeInstances = <<>>
    /\ numSamples = 0
    /\ curTime = 0
    /\ curAnimJobId = 0
    /\ frameViews = <<>>
    /\ framesOpened = 0
    /\ issuedJobIds = {}
    /\ fault = "none"
    /\ ret = Returned("none", "void")

\* ------------------------------------------------------------------ setup
setup ==
    /\ ~isValid
    /\ fault = "none"
    /\ isValid' = TRUE
    /\ labelStack' = <<LabelDefault>>
    /\ labelCounter' = 0
    /\ registry' = <<>>
    /\ libPool' = PoolSetup(NewLibrary, MaxNumLibs)
    /\ skelPool' = PoolSetup(NewSkeleton, MaxNumSkeletons)
    /\ instPool' = PoolSetup(NewInstance, MaxNumInstances)
    /\ valuePool' = [i \in 0..(KeyPoolCapacity + SamplePoolCapacity - 1) |-> Garbage]
    /\ ret' = Returned("setup", "void")
    /\ UNCHANGED <<clipPool, curvePool, matrixPool, numKeys, fault>>
    /\ UNCHANGED frameState

\* ----------------------------------------------------------- label stack
PushLabel ==
    /\ isValid
    /\ fault = "none"
    /\ labelCounter < MaxLabels
    /\ labelCounter' = labelCounter + 1
    /\ labelStack' = Append(labelStack, labelCounter + 1)
    /\ ret' = Returned("PushLabel", labelCounter + 1)
    /\ UNCHANGED <<isValid, libPool, skelPool, instPool, clipPool, curvePool,
                   matrixPool, numKeys, valuePool, registry, fault>>
    /\ UNCHANGED frameState

PopLabel ==
    /\ isValid
    /\ fault = "none"
    /\ Len(labelStack) > 1
    /\ labelStack' = SubSeq(labelStack, 1, Len(labelStack) - 1)
    /\ ret' = Returned("PopLabel", PeekLabel)
    /\ UNCHANGED <<isValid, libPool, skelPool, instPool, clipPool, curvePool,
                   matrixPool, numKeys, valuePool, registry, labelCounter, fault>>
    /\ UNCHANGED frameState

\* ---------------------------------------------------------- createLibrary
\* the key floats the setup needs (the counting loop of the precheck)
RECURSIVE CurveKeys(_, _, _)
CurveKeys(layout, clipSetup, i) ==
    IF i > Len(clipSetup.Curves) THEN 0
    ELSE (IF clipSetup.Curves[i].Static THEN 0
          ELSE clipSetup.Length * Stride(layout[i]))
         + CurveKeys(layout, clipSetup, i + 1)

libNumKeys(s) ==
    SumSeq([c \in 1..Len(s.Clips) |-> CurveKeys(s.CurveLayout, s.Clips[c], 1)])

ClipPoolExhausted(s) == Len(clipPool) + Len(s.Clips) > ClipPoolCapacity

CurvePoolExhausted(s) == Len(curvePool) + Len(s.CurveLayout) > CurvePoolCapacity

CurveNumberMismatch(s) ==
    \E c \in 1..Len(s.Clips) : Len(s.Clips[c].Curves) # Len(s.CurveLayout)

KeyPoolExhausted(s) == numKeys + libNumKeys(s) > KeyPoolCapacity

\* the warning createLibrary gives up with, "" when the setup passes the checks
Rejection(s) ==
    IF ClipPoolExhausted(s) THEN "clip pool exhausted"
    ELSE IF CurvePoolExhausted(s) THEN "curve pool exhausted"
    ELSE IF CurveNumberMismatch(s) THEN "curve number mismatch"
    ELSE IF KeyPoolExhausted(s) THEN "key pool exhausted"
    ELSE ""

\* variant: KeyIndex is taken after the curve's stride was added
RECURSIVE AddCurves_KeyIndexAfter(_, _, _, _, _)
AddCurves_KeyIndexAfter(pool, layout, curves, i, keyStride) ==
    IF i > Len(curves) THEN [curvePool |-> pool, KeyStride |-> keyStride]
    ELSE LET curveSetup == curves[i]
             fmt == layout[i]
             curve == [NewCurve EXCEPT
                         !.Static = curveSetup.Static,
                         !.Format = fmt,
                         !.NumValues = Stride(fmt),
                         !.StaticValue = curveSetup.StaticValue,
                         !.KeyIndex = IF curveSetup.Static THEN @
                                      ELSE keyStride + Stride(fmt),
                         !.KeyStride = IF curveSetup.Static THEN @ ELSE Stride(fmt)]
         IN AddCurves_KeyIndexAfter(Append(pool, curve), layout, curves, i + 1,
                                    keyStride + curve.KeyStride)

\* the per-curve loop of one clip: appends the clip's curves, sums its key stride
RECURSIVE AddCurves(_, _, _, _, _)
AddCurves(pool, layout, curves, i, keyStride) ==
    IF i > Len(curves) THEN [curvePool |-> pool, KeyStride |-> keyStride]
    ELSE LET curveSetup == curves[i]
             fmt == layout[i]
             curve == [NewCurve EXCEPT
                         !.Static = curveSetup.Static,
                         !.Format = fmt,
                         !.NumValues = Stride(fmt),
                         !.StaticValue = curveSetup.StaticValue,
                         !.KeyIndex = IF curveSetup.Static THEN @ ELSE keyStride,
                         !.KeyStride = IF curveSetup.Static THEN @ ELSE Stride(fmt)]
         IN AddCurves(Append(pool, curve), layout, curves, i + 1,
                      keyStride + curve.KeyStride)

\* the per-clip loop: st carries clipPool, curvePool, clipKeyIndex, ClipIndexMap
RECURSIVE AddClips(_, _, _, _)
AddClips(st, layout, clips, c) ==
    IF c > Len(clips) THEN st
    ELSE LET clipSetup == clips[c]
             curveIndex == Len(st.curvePool)
             added == AddCurves(st.curvePool, layout, clipSetup.Curves, 1, 0)
             clipNumKeys == added.KeyStride * clipSetup.Length
             clip == [NewClip EXCEPT
                        !.Name = clipSetup.Name,
                        !.Length = clipSetup.Length,
                        !.KeyDuration = clipSetup.KeyDuration,
                        !.KeyStride = added.KeyStride,
                        !.Curves = MakeSlice(curveIndex, Len(clipSetup.Curves)),
                        !.Keys = IF clipNumKeys > 0
                                 THEN MakeSlice(st.clipKeyIndex, clipNumKeys) ELSE @]
         IN AddClips([clipPool |-> Append(st.clipPool, clip),
                      curvePool |-> added.curvePool,
                      clipKeyIndex |-> IF clipNumKeys > 0
                                       THEN st.clipKeyIndex + clipNumKeys
                                       ELSE st.clipKeyIndex,
                      ClipIndexMap |-> st.ClipIndexMap
                                       \cup {<<clipSetup.Name, Len(st.clipPool)>>}],
                     layout, clips, c + 1)

\* variant: the static curves' values are written into the row as well
RECURSIVE RowValues_AllCurves(_)
RowValues_AllCurves(curves) ==
    IF curves = <<>> THEN <<>>
    ELSE SubSeq(Head(curves).StaticValue, 1, Head(curves).NumValues)
         \o RowValues_AllCurves(Tail(curves))

\* one row of a clip's default keys: the curves' static values up to KeyStride
RECURSIVE RowValues(_)
RowValues(curves) ==
    IF curves = <<>> THEN <<>>
    ELSE SubSeq(Head(curves).StaticValue, 1, Head(curves).KeyStride)
         \o RowValues(Tail(curves))

\* the default fill of one clip: Length rows written through clip.Keys
FillClip(values, clip, curves) ==
    LET row == RowValues(Through(curves, clip.Curves))
        n == clip.Length * clip.KeyStride
    IN [a \in DOMAIN values |->
          IF a >= clip.Keys.off /\ a < clip.Keys.off + n
          THEN row[((a - clip.Keys.off) % clip.KeyStride) + 1]
          ELSE values[a]]

RECURSIVE FillClips(_, _, _, _)
FillClips(values, clips, curves, c) ==
    IF c > Len(clips) THEN values
    ELSE FillClips(FillClip(values, clips[c], curves), clips, curves, c + 1)

\* the manager after a new library was built, filled, registered and made Valid
InstallLibrary(m, name, s, label) ==
    LET resId == PoolNextId(m.libPool, resTypeLib)
        curvePoolIndex == Len(m.curvePool)
        clipPoolIndex == Len(m.clipPool)
        built == AddClips([clipPool |-> m.clipPool, curvePool |-> m.curvePool,
                           clipKeyIndex |-> m.numKeys, ClipIndexMap |-> {}],
                          s.CurveLayout, s.Clips, 1)
        lib == [NewLibrary EXCEPT
                  !.Name = name,
                  !.SampleStride = SumSeq([i \in 1..Len(s.CurveLayout) |->
                                             Stride(s.CurveLayout[i])]),
                  !.CurveLayout = s.CurveLayout,
                  !.ClipIndexMap = built.ClipIndexMap,
                  !.Keys = MakeSlice(m.numKeys, libNumKeys(s)),
                  !.Curves = MakeSlice(curvePoolIndex,
                                       Len(s.Clips) * Len(s.CurveLayout)),
                  !.Clips = MakeSlice(clipPoolIndex, Len(s.Clips))]
        assigned == PoolAllocAssign(m.libPool, resTypeLib, lib)
    IN [m EXCEPT
          !.libPool = PoolUpdateState(assigned, resId, "Valid"),
          !.clipPool = built.clipPool,
          !.curvePool = built.curvePool,
          !.numKeys = @ + libNumKeys(s),
          !.valuePool = FillClips(@, Through(built.clipPool, lib.Clips),
                                  built.curvePool, 1),
          !.registry = RegAdd(@, name, resId, label)]

\* variant: a registered locator is taken for a failure
createLibraryExisting_Invalid(name, n) ==
    /\ IsValidId(RegLookup(registry, name))
    /\ RegLookup(registry, name).Type = resTypeLib
    /\ ret' = Returned("createLibrary", InvalidId)
    /\ UNCHANGED <<isValid, libPool, skelPool, instPool, clipPool, curvePool,
                   matrixPool, numKeys, valuePool, registry, labelStack,
                   labelCounter, fault>>

\* the locator is registered already: hand back the registered id
createLibraryExisting(name, n) ==
    /\ IsValidId(RegLookup(registry, name))
    /\ RegLookup(registry, name).Type = resTypeLib
    /\ ret' = Returned("createLibrary", RegLookup(registry, name))
    /\ UNCHANGED <<isValid, libPool, skelPool, instPool, clipPool, curvePool,
                   matrixPool, numKeys, valuePool, registry, labelStack,
                   labelCounter, fault>>

\* variant: the id is allocated before the checks and never handed back
createLibraryReject_AllocFirst(name, n) ==
    /\ ~IsValidId(RegLookup(registry, name))
    /\ Rejection(LibSetups[n]) # ""
    /\ libPool.freeSlots # <<>>
    /\ libPool' = PoolAllocAssign(libPool, resTypeLib, NewLibrary)
    /\ ret' = Returned("createLibrary", InvalidId)
    /\ UNCHANGED <<isValid, skelPool, instPool, clipPool, curvePool,
                   matrixPool, numKeys, valuePool, registry, labelStack,
                   labelCounter, fault>>

\* the setup fails a check: warn and return the invalid id
createLibraryReject(name, n) ==
    /\ ~IsValidId(RegLookup(registry, name))
    /\ Rejection(LibSetups[n]) # ""
    /\ ret' = Returned("createLibrary", InvalidId)
    /\ UNCHANGED <<isValid, libPool, skelPool, instPool, clipPool, curvePool,
                   matrixPool, numKeys, valuePool, registry, labelStack,
                   labelCounter, fault>>

\* the setup passes the checks and fits: build the library
createLibraryNew(name, n) ==
    /\ ~IsValidId(RegLookup(registry, name))
    /\ Rejection(LibSetups[n]) = ""
    /\ libPool.freeSlots # <<>>
    /\ libPool.uniqueCounter < MaxLibIds
    /\ LET m == InstallLibrary(Mgr, name, LibSetups[n], PeekLabel) IN
       /\ Len(m.curvePool) <= CurvePoolCapacity
       /\ Becomes(m)
       /\ ret' = Returned("createLibrary", PoolNextId(libPool, resTypeLib))
    /\ UNCHANGED <<isValid, labelStack, labelCounter>>

\* the setup passes the checks but its curves do not fit the curve pool, whose
\* growth is disabled: a build with assertions stops in Array::Add, one without
\* them writes behind the pool's memory and carries on
createLibraryOverrun(name, n) ==
    /\ ~IsValidId(RegLookup(registry, name))
    /\ Rejection(LibSetups[n]) = ""
    /\ libPool.freeSlots # <<>>
    /\ libPool.uniqueCounter < MaxLibIds
    /\ LET m == InstallLibrary(Mgr, name, LibSetups[n], PeekLabel) IN
       /\ Len(m.curvePool) > CurvePoolCapacity
       /\ \/ /\ Becomes([m EXCEPT !.fault = "overrun"])
             /\ ret' = Returned("createLibrary", PoolNextId(libPool, resTypeLib))
          \/ /\ Becomes([Mgr EXCEPT !.fault = "abort"])
             /\ ret' = Aborted
    /\ UNCHANGED <<isValid, labelStack, labelCounter>>

\* the locator is registered by a resource of another type: the type assertion
\* stops a build with assertions, a build without them returns the foreign id
createLibraryForeign(name, n) ==
    /\ IsValidId(RegLookup(registry, name))
    /\ RegLookup(registry, name).Type # resTypeLib
    /\ \/ /\ ret' = Returned("createLibrary", RegLookup(registry, name))
          /\ UNCHANGED fault
       \/ /\ ret' = Aborted
          /\ fault' = "abort"
    /\ UNCHANGED <<isValid, libPool, skelPool, instPool, clipPool, curvePool,
                   matrixPool, numKeys, valuePool, registry, labelStack,
                   labelCounter>>

createLibrary(name, n) ==
    /\ isValid
    /\ fault = "none"
    /\ \/ createLibraryExisting(name, n)
       \/ createLibraryForeign(name, n)
       \/ createLibraryReject(name, n)
       \/ createLibraryNew(name, n)
       \/ createLibraryOverrun(name, n)
    /\ UNCHANGED frameState

\* ------------------------------------------------- removal and compaction
\* lib.f and clip.f of every live library and every pooled clip, gap filled
FixLibViews(pool, f, range) ==
    [pool EXCEPT !.slots = [i \in DOMAIN @ |->
        IF i \in LiveSlots(pool)
        THEN [@[i] EXCEPT ![f] = FillGap(@, range.off, range.len)]
        ELSE @[i]]]

\* variant: the views of the pooled clips are not fixed up
FixClipViews_None(clips, f, range) == clips

FixClipViews(clips, f, range) ==
    [i \in 1..Len(clips) |-> [clips[i] EXCEPT ![f] = FillGap(@, range.off, range.len)]]

\* variant: the key floats behind the range stay where they are
MoveKeys_None(values, range, numKeysToMove) == values

\* Memory::Move of the key floats behind the range down onto it
MoveKeys(values, range, numKeysToMove) ==
    [a \in DOMAIN values |->
        IF a >= range.off /\ a < range.off + numKeysToMove
        THEN values[a + range.len] ELSE values[a]]

\* variant: numKeys is not lowered
removeKeys_KeepsNumKeys(m, range) ==
    IF range.len = 0 THEN m
    ELSE LET numKeysToMove == m.numKeys - (range.off + range.len) IN
         [m EXCEPT
            !.valuePool = IF numKeysToMove > 0
                          THEN MoveKeys(@, range, numKeysToMove) ELSE @,
            !.libPool = FixLibViews(@, "Keys", range),
            !.clipPool = FixClipViews(@, "Keys", range)]

removeKeys(m, range) ==
    IF range.len = 0 THEN m
    ELSE LET numKeysToMove == m.numKeys - (range.off + range.len) IN
         [m EXCEPT
            !.valuePool = IF numKeysToMove > 0
                          THEN MoveKeys(@, range, numKeysToMove) ELSE @,
            !.numKeys = @ - range.len,
            !.libPool = FixLibViews(@, "Keys", range),
            !.clipPool = FixClipViews(@, "Keys", range)]

removeCurves(m, range) ==
    IF SliceEnd(range) > Len(m.curvePool) THEN [m EXCEPT !.fault = "abort"]
    ELSE [m EXCEPT
            !.curvePool = EraseRange(@, range.off, range.len),
            !.libPool = FixLibViews(@, "Curves", range),
            !.clipPool = FixClipViews(@, "Curves", range)]

\* variant: the libraries' Clips views are not fixed up
removeClips_NoFixup(m, range) ==
    IF SliceEnd(range) > Len(m.clipPool) THEN [m EXCEPT !.fault = "abort"]
    ELSE [m EXCEPT !.clipPool = EraseRange(@, range.off, range.len)]

removeClips(m, range) ==
    IF SliceEnd(range) > Len(m.clipPool) THEN [m EXCEPT !.fault = "abort"]
    ELSE [m EXCEPT
            !.clipPool = EraseRange(@, range.off, range.len),
            !.libPool = FixLibViews(@, "Clips", range)]

removeMatrices(m, range) ==
    IF SliceEnd(range) > Len(m.matrixPool) THEN [m EXCEPT !.fault = "abort"]
    ELSE [m EXCEPT
            !.matrixPool = EraseRange(@, range.off, range.len),
            !.skelPool = [@ EXCEPT !.slots = [i \in DOMAIN @ |->
                IF i \in LiveSlots(m.skelPool)
                THEN [@[i] EXCEPT
                        !.BindPose = FillGap(@, range.off, range.len),
                        !.InvBindPose = FillGap(@, range.off, range.len)]
                ELSE @[i]]]]

\* ------------------------------------------------------------ destroy path
destroyLibrary(m, id) ==
    LET lib == PoolLookup(m.libPool, id) IN
    IF lib = InvalidIndex THEN [m EXCEPT !.libPool = PoolUnassign(@, id, NewLibrary)]
    ELSE LET m1 == removeClips(m, m.libPool.slots[lib].Clips)
             m2 == IF m1.fault # "none" THEN m1
                   ELSE removeCurves(m1, m1.libPool.slots[lib].Curves)
             m3 == IF m2.fault # "none" THEN m2
                   ELSE removeKeys(m2, m2.libPool.slots[lib].Keys)
         IN IF m3.fault # "none" THEN m3
            ELSE [m3 EXCEPT !.libPool = PoolUnassign(@, id, NewLibrary)]

\* variant: the skeleton's matrices stay in the pool
destroySkeleton_KeepsMatrices(m, id) ==
    [m EXCEPT !.skelPool = PoolUnassign(@, id, NewSkeleton)]

destroySkeleton(m, id) ==
    LET skel == PoolLookup(m.skelPool, id) IN
    IF skel = InvalidIndex THEN [m EXCEPT !.skelPool = PoolUnassign(@, id, NewSkeleton)]
    ELSE LET m1 == removeMatrices(m, m.skelPool.slots[skel].Matrices) IN
         IF m1.fault # "none" THEN m1
         ELSE [m1 EXCEPT !.skelPool = PoolUnassign(@, id, NewSkeleton)]

\* variant: the instance slot is not given back
destroyInstance_None(m, id) == m

destroyInstance(m, id) ==
    [m EXCEPT !.instPool = PoolUnassign(@, id, NewInstance)]

\* the loop of destroy over the ids the registry returned
RECURSIVE destroyEach(_, _, _)
destroyEach(m, removed, i) ==
    IF i > Len(removed) \/ m.fault # "none" THEN m
    ELSE LET id == removed[i].id IN
         destroyEach(CASE id.Type = resTypeLib -> destroyLibrary(m, id)
                       [] id.Type = resTypeSkeleton -> destroySkeleton(m, id)
                       [] id.Type = resTypeInstance -> destroyInstance(m, id),
                     removed, i + 1)

destroy(label) ==
    /\ isValid
    /\ fault = "none"
    /\ LET m == destroyEach([Mgr EXCEPT !.registry = RegKept(@, label)],
                            RegRemoved(registry, label), 1) IN
       /\ Becomes(m)
       /\ ret' = IF m.fault = "none" THEN Returned("destroy", "void") ELSE Aborted
    /\ UNCHANGED <<isValid, labelStack, labelCounter>>
    /\ UNCHANGED frameState

\* --------------------------------------------------------- createSkeleton
MatrixPoolExhausted(bones) == Len(matrixPool) + Len(bones) * 2 > MatrixPoolCapacity

InstallSkeleton(m, name, bones, label) ==
    LET resId == PoolNextId(m.skelPool, resTypeSkeleton)
        NumBones == Len(bones)
        matrixPoolIndex == Len(m.matrixPool)
        Matrices == MakeSlice(matrixPoolIndex, NumBones * 2)
        skel == [NewSkeleton EXCEPT
                   !.Name = name,
                   !.NumBones = NumBones,
                   !.Matrices = Matrices,
                   !.BindPose = MakeSlice(Matrices.off + 0, NumBones),
                   !.InvBindPose = MakeSlice(Matrices.off + NumBones, NumBones),
                   !.ParentIndices = [i \in 1..NumBones |-> bones[i].ParentIndex]]
        assigned == PoolAllocAssign(m.skelPool, resTypeSkeleton, skel)
    IN [m EXCEPT
          !.skelPool = PoolUpdateState(assigned, resId, "Valid"),
          !.matrixPool = @ \o [i \in 1..NumBones |-> bones[i].BindPose]
                           \o [i \in 1..NumBones |-> bones[i].InvBindPose],
          !.registry = RegAdd(@, name, resId, label)]

createSkeletonExisting(name, k) ==
    /\ IsValidId(RegLookup(registry, name))
    /\ RegLookup(registry, name).Type = resTypeSkeleton
    /\ ret' = Returned("createSkeleton", RegLookup(registry, name))
    /\ UNCHANGED <<isValid, libPool, skelPool, instPool, clipPool, curvePool,
                   matrixPool, numKeys, valuePool, registry, labelStack,
                   labelCounter, fault>>

createSkeletonForeign(name, k) ==
    /\ IsValidId(RegLookup(registry, name))
    /\ RegLookup(registry, name).Type # resTypeSkeleton
    /\ \/ /\ ret' = Returned("createSkeleton", RegLookup(registry, name))
          /\ UNCHANGED fault
       \/ /\ ret' = Aborted
          /\ fault' = "abort"
    /\ UNCHANGED <<isValid, libPool, skelPool, instPool, clipPool, curvePool,
                   matrixPool, numKeys, valuePool, registry, labelStack,
                   labelCounter>>

createSkeletonReject(name, k) ==
    /\ ~IsValidId(RegLookup(registry, name))
    /\ MatrixPoolExhausted(SkelSetups[k])
    /\ ret' = Returned("createSkeleton", InvalidId)
    /\ UNCHANGED <<isValid, libPool, skelPool, instPool, clipPool, curvePool,
                   matrixPool, numKeys, valuePool, registry, labelStack,
                   labelCounter, fault>>

createSkeletonNew(name, k) ==
    /\ ~IsValidId(RegLookup(registry, name))
    /\ ~MatrixPoolExhausted(SkelSetups[k])
    /\ skelPool.freeSlots # <<>>
    /\ skelPool.uniqueCounter < MaxSkelIds
    /\ Becomes(InstallSkeleton(Mgr, name, SkelSetups[k], PeekLabel))
    /\ ret' = Returned("createSkeleton", PoolNextId(skelPool, resTypeSkeleton))
    /\ UNCHANGED <<isValid, labelStack, labelCounter>>

\* ---------------------------------------------------------------- discard
\* the three pools are empty when discard looks at them
PoolsEmpty(m) == m.clipPool = <<>> /\ m.curvePool = <<>> /\ m.matrixPool = <<>>

\* destroy(All), then the containers are discarded; a failed emptiness
\* assertion stops the process
discard ==
    /\ isValid
    /\ fault = "none"
    /\ LET m == destroyEach([Mgr EXCEPT !.registry = RegKept(@, LabelAll)],
                            RegRemoved(registry, LabelAll), 1) IN
       IF m.fault # "none" \/ ~PoolsEmpty(m)
       THEN /\ Becomes([m EXCEPT !.fault = "abort"])
            /\ ret' = Aborted
            /\ UNCHANGED <<isValid, labelStack, labelCounter, activeInstances>>
       ELSE /\ Becomes([m EXCEPT !.libPool = PoolDiscarded,
                                 !.skelPool = PoolDiscarded,
                                 !.instPool = PoolDiscarded,
                                 !.valuePool = <<>>])
            /\ labelStack' = <<>>
            /\ labelCounter' = 0
            /\ activeInstances' = <<>>
            /\ isValid' = FALSE
            /\ ret' = Returned("discard", "void")
    /\ UNCHANGED <<inFrame, numSamples, curTime, curAnimJobId, frameViews,
                   framesOpened, issuedJobIds>>

createSkeleton(name, k) ==
    /\ isValid
    /\ fault = "none"
    /\ \/ createSkeletonExisting(name, k)
       \/ createSkeletonForeign(name, k)
       \/ createSkeletonReject(name, k)
       \/ createSkeletonNew(name, k)
    /\ UNCHANGED frameState

\* --------------------------------------------------------- createInstance
\* ids of the given type the registry holds
RegisteredIds(type) == {registry[i].id : i \in {j \in 1..Len(registry) :
                                                  registry[j].id.Type = type}}

createInstance(libId, skelId) ==
    /\ isValid
    /\ fault = "none"
    /\ instPool.freeSlots # <<>>
    /\ instPool.uniqueCounter < MaxInstIds
    /\ LET resId == PoolNextId(instPool, resTypeInstance)
           inst == [NewInstance EXCEPT
                      !.library = PoolLookup(libPool, libId),
                      !.skeleton = IF IsValidId(skelId)
                                   THEN PoolLookup(skelPool, skelId) ELSE @]
           assigned == PoolAllocAssign(instPool, resTypeInstance, inst)
           installed ==
               /\ instPool' = PoolUpdateState(assigned, resId, "Valid")
               /\ registry' = RegAdd(registry, NonShared, resId, PeekLabel)
               /\ ret' = Returned("createInstance", resId)
       IN IF inst.library # InvalidIndex
             /\ (IsValidId(skelId) => inst.skeleton # InvalidIndex)
          THEN installed /\ fault' = "none"
          \* a handle that does not resolve: the assertion stops the process
          \* after the slot was taken, or is compiled out and the instance is
          \* registered with a null pointer
          ELSE \/ /\ instPool' = assigned
                  /\ registry' = registry
                  /\ Violation
               \/ installed /\ fault' = "contract"
    /\ UNCHANGED <<isValid, libPool, skelPool, clipPool, curvePool, matrixPool,
                   numKeys, valuePool, labelStack, labelCounter>>
    /\ UNCHANGED frameState

\* -------------------------------------------------------------- writeKeys
\* the buffer's floats copied over the library's key range
CopyKeys(values, range, buf) ==
    [a \in DOMAIN values |->
        IF a >= range.off /\ a < range.off + Len(buf)
        THEN buf[a - range.off + 1] ELSE values[a]]

writeKeys(lib, buf) ==
    /\ isValid
    /\ fault = "none"
    /\ lib \in LiveSlots(libPool)
    /\ Len(buf) > 0
    /\ libPool.slots[lib].Keys.len = Len(buf)
    /\ valuePool' = CopyKeys(valuePool, libPool.slots[lib].Keys, buf)
    /\ ret' = Returned("writeKeys", "void")
    /\ UNCHANGED <<isValid, libPool, skelPool, instPool, clipPool, curvePool,
                   matrixPool, numKeys, registry, labelStack, labelCounter, fault>>
    /\ UNCHANGED frameState

\* -------------------------------------------------------------- frame loop
\* the sample region of the value pool, behind the key region
samples == MakeSlice(KeyPoolCapacity, SamplePoolCapacity)

\* variant: the view is taken from the start of the value pool
SubSlice_FromPoolStart(v, off, len) == MakeSlice(off, len)

\* Slice::MakeSlice: a view of len elements at off inside the view v
SubSlice(v, off, len) == MakeSlice(v.off + off, len)

\* what is left untouched by the frame loop's calls
resources == <<isValid, libPool, skelPool, clipPool, curvePool, matrixPool,
               numKeys, registry, labelStack, labelCounter>>

\* variant: the instances keep their views
ClearViews_None(pool, active) == pool

\* the views of the instances of the last frame are reset
ClearViews(pool, active) ==
    [pool EXCEPT !.slots = [i \in DOMAIN @ |->
        IF i \in Range(active)
        THEN [@[i] EXCEPT !.samples = EmptySlice, !.skinMatrices = EmptySlice]
        ELSE @[i]]]

newFrameBody ==
    /\ instPool' = ClearViews(instPool, activeInstances)
    /\ activeInstances' = <<>>
    /\ numSamples' = 0
    /\ inFrame' = TRUE
    /\ frameViews' = <<>>
    /\ framesOpened' = framesOpened + 1
    /\ ret' = Returned("newFrame", "void")

\* variant: the call is taken in either state
newFrame_AnyState ==
    /\ isValid
    /\ fault = "none"
    /\ newFrameBody
    /\ fault' = "none"
    /\ UNCHANGED <<resources, valuePool, curTime, curAnimJobId, issuedJobIds>>

\* called in a frame, the assertion stops the process where assertions are
\* compiled in; elsewhere the body runs outside the contract
newFrame ==
    /\ isValid
    /\ fault = "none"
    /\ IF ~inFrame
       THEN newFrameBody /\ fault' = "none"
       ELSE \/ Violation /\ UNCHANGED <<instPool, activeInstances, numSamples,
                                        inFrame, frameViews, framesOpened>>
            \/ newFrameBody /\ fault' = "contract"
    /\ UNCHANGED <<resources, valuePool, curTime, curAnimJobId, issuedJobIds>>

ActiveSetFull == Len(activeInstances) = MaxNumActiveInstances

\* variant: a request that exactly fills the sample region is refused
SamplePoolFull_Exact(stride) == numSamples + stride >= samples.len

SamplePoolFull(stride) == numSamples + stride > samples.len

addActiveInstanceBody(inst) ==
    LET stride == libPool.slots[instPool.slots[inst].library].SampleStride
        view == SubSlice(samples, numSamples, stride)
    IN IF ActiveSetFull \/ SamplePoolFull(stride)
       THEN /\ ret' = Returned("addActiveInstance", FALSE)
            /\ UNCHANGED <<instPool, activeInstances, numSamples, frameViews>>
       ELSE /\ activeInstances' = Append(activeInstances, inst)
            /\ instPool' = [instPool EXCEPT !.slots[inst].samples = view]
            /\ numSamples' = numSamples + stride
            /\ frameViews' = Append(frameViews, view)
            /\ ret' = Returned("addActiveInstance", TRUE)

addActiveInstance(inst) ==
    /\ isValid
    /\ fault = "none"
    /\ inst \in LiveSlots(instPool)
    /\ IF instPool.slots[inst].library = InvalidIndex
       THEN Violation /\ UNCHANGED <<instPool, activeInstances, numSamples,
                                     frameViews>>
       ELSE IF inFrame
       THEN addActiveInstanceBody(inst) /\ fault' = "none"
       ELSE \/ Violation /\ UNCHANGED <<instPool, activeInstances, numSamples,
                                        frameViews>>
            \/ addActiveInstanceBody(inst) /\ fault' = "contract"
    /\ UNCHANGED <<resources, valuePool, inFrame, curTime, curAnimJobId,
                   framesOpened, issuedJobIds>>

\* sequencer.eval for each active instance: its samples view is written
RECURSIVE EvalEach(_, _, _)
EvalEach(values, active, i) ==
    IF i > Len(active) THEN values
    ELSE LET v == instPool.slots[active[i]].samples IN
         EvalEach([a \in DOMAIN values |->
                     IF a >= v.off /\ a < SliceEnd(v) THEN Sampled ELSE values[a]],
                  active, i + 1)

\* an entry of the active list whose instance was cleared by destroyInstance:
\* its library pointer is null
StaleActive ==
    \E i \in 1..Len(activeInstances) :
        instPool.slots[activeInstances[i]].library = InvalidIndex

evaluateBody(frameDur) ==
    /\ valuePool' = EvalEach(valuePool, activeInstances, 1)
    /\ curTime' = curTime + frameDur
    /\ inFrame' = FALSE
    /\ framesOpened' = 0
    /\ ret' = Returned("evaluate", "void")

evaluate(frameDur) ==
    /\ isValid
    /\ fault = "none"
    /\ curTime + frameDur \in -MaxTime..MaxTime
    /\ IF inFrame
       THEN \/ evaluateBody(frameDur) /\ fault' = "none"
            \* sequencer.eval is handed the null library of a cleared instance
            \/ /\ StaleActive
               /\ Violation
               /\ UNCHANGED <<valuePool, curTime, inFrame, framesOpened>>
       ELSE \/ Violation /\ UNCHANGED <<valuePool, curTime, inFrame, framesOpened>>
            \/ evaluateBody(frameDur) /\ fault' = "contract"
    /\ UNCHANGED <<resources, instPool, activeInstances, numSamples,
                   curAnimJobId, frameViews, issuedJobIds>>

\* ------------------------------------------------------------------- play
\* ++curAnimJobId in an integer of JobIdBits bits
NextJobId(cur) == (cur + 1) % (2 ^ JobIdBits)

\* accepted is what sequencer.add answers
play(inst, clipIndex, accepted) ==
    /\ isValid
    /\ fault = "none"
    /\ inst \in LiveSlots(instPool)
    /\ instPool.slots[inst].library # InvalidIndex
    /\ clipIndex \in 0..(libPool.slots[instPool.slots[inst].library].Clips.len - 1)
    /\ LET jobId == NextJobId(curAnimJobId) IN
       /\ curAnimJobId' = jobId
       /\ ret' = Returned("play", IF accepted THEN jobId ELSE InvalidAnimJobId)
       /\ issuedJobIds' = IF accepted THEN issuedJobIds \cup {jobId}
                          ELSE issuedJobIds
    /\ UNCHANGED <<resources, instPool, valuePool, inFrame, activeInstances,
                   numSamples, curTime, frameViews, framesOpened, fault>>

\* ----------------------------------------------------------- specification
Labels == {LabelAll} \cup 0..labelCounter

WriteKeysAny ==
    \E lib \in DOMAIN libPool.slots :
        \E buf \in KeyBuffers(lib, libPool.slots[lib].Keys.len) : writeKeys(lib, buf)

CreateInstanceAny ==
    \E libId \in RegisteredIds(resTypeLib),
       skelId \in {InvalidId} \cup RegisteredIds(resTypeSkeleton) :
        /\ instPool.uniqueCounter < MaxLabelInstIds
        /\ createInstance(libId, skelId)

RegisteredNames == {registry[i].name : i \in 1..Len(registry)}

\* locators are told apart by equality alone, so of the unregistered ones the
\* first stands for all
FreshLocators ==
    {LocatorSeq[i] : i \in {j \in 1..Len(LocatorSeq) :
        /\ LocatorSeq[j] \notin RegisteredNames
        /\ \A k \in 1..(j - 1) : LocatorSeq[k] \in RegisteredNames}}

\* libraries under labels: creation, key upload, destruction by label
NextLib ==
    \/ setup
    \/ PushLabel
    \/ PopLabel
    \/ \E name \in (Locators \cap RegisteredNames) \cup FreshLocators,
          n \in BasicSetups : createLibrary(name, n)
    \/ WriteKeysAny
    \/ \E label \in Labels : destroy(label)

SpecLib == Init /\ [][NextLib]_vars

\* library and skeleton creation against the pool limits, without labels
NextCreate ==
    \/ setup
    \/ \E name \in (Locators \cap RegisteredNames) \cup FreshLocators,
          n \in BasicSetups : createLibrary(name, n)
    \/ \E name \in SkelLocators, k \in 1..Len(SkelSetups) : createSkeleton(name, k)
    \/ \E label \in Labels : destroy(label)

SpecCreate == Init /\ [][NextCreate]_vars

\* the library builder with every setup, key upload and destroy of everything
NextBuild ==
    \/ setup
    \/ \E name \in (Locators \cap RegisteredNames) \cup FreshLocators,
          n \in 1..Len(LibSetups) : createLibrary(name, n)
    \/ WriteKeysAny
    \/ destroy(LabelAll)

SpecBuild == Init /\ [][NextBuild]_vars

\* the three kinds of resources under labels: libraries of the two two-clip
\* setups, at most MaxLabelLibIds of them built in a run
NextLabel ==
    \/ setup
    \/ PushLabel
    \/ PopLabel
    \/ \E name \in (Locators \cap RegisteredNames) \cup FreshLocators,
          n \in {2, 5} :
            /\ name \in RegisteredNames \/ libPool.uniqueCounter < MaxLabelLibIds
            /\ createLibrary(name, n)
    \/ \E name \in SkelLocators, k \in 1..Len(SkelSetups) : createSkeleton(name, k)
    \/ CreateInstanceAny
    \/ \E label \in Labels : destroy(label)

SpecLabel == Init /\ [][NextLabel]_vars

\* the labelled resources, and the manager discarded at any point
NextDiscard ==
    \/ NextLabel
    \/ discard

SpecDiscard == Init /\ [][NextDiscard]_vars

\* frame durations the caller passes to evaluate
FrameDurations == {-1, 0, 1}

\* the frame loop over the instances of a library of SampleStride 2 ("a")
\* and of one of SampleStride 1 ("b")
NextFrame ==
    \/ setup
    \/ createLibrary("a", 1)
    \/ createLibrary("b", 3)
    \/ \E libId \in RegisteredIds(resTypeLib) : createInstance(libId, InvalidId)
    \/ newFrame
    \/ \E inst \in DOMAIN instPool.slots : addActiveInstance(inst)
    \/ \E frameDur \in FrameDurations : evaluate(frameDur)

SpecFrame == Init /\ [][NextFrame]_vars

\* the frame loop with resources destroyed and the manager discarded and
\* set up again at any point
NextFrameLife ==
    \/ setup
    \/ createLibrary("b", 3)
    \/ \E libId \in RegisteredIds(resTypeLib) : createInstance(libId, InvalidId)
    \/ newFrame
    \/ \E inst \in DOMAIN instPool.slots : addActiveInstance(inst)
    \/ \E frameDur \in {0, 1} : evaluate(frameDur)
    \/ \E label \in Labels : destroy(label)
    \/ discard

SpecFrameLife == Init /\ [][NextFrameLife]_vars

\* jobs started on the instances of one library
NextPlay ==
    \/ setup
    \/ createLibrary("a", 5)
    \/ \E libId \in RegisteredIds(resTypeLib) : createInstance(libId, InvalidId)
    \/ \E inst \in DOMAIN instPool.slots, clipIndex \in 0..1,
          accepted \in BOOLEAN : play(inst, clipIndex, accepted)

SpecPlay == Init /\ [][NextPlay]_vars

\* library handles a caller may hold: every slot with the first stamps
LibHandles ==
    {MakeId(resTypeLib, slot, stamp) : slot \in 0..(MaxNumLibs - 1),
                                       stamp \in 1..MaxLibIds}

\* instances created from handles of live, destroyed and never created
\* libraries
NextInst ==
    \/ setup
    \/ \E name \in (Locators \cap RegisteredNames) \cup FreshLocators :
          createLibrary(name, 3)
    \/ \E label \in Labels : destroy(label)
    \/ \E libId \in LibHandles : createInstance(libId, InvalidId)

SpecInst == Init /\ [][NextInst]_vars

Next ==
    \/ NextLib
    \/ NextBuild
    \/ \E name \in SkelLocators, k \in 1..Len(SkelSetups) : createSkeleton(name, k)
    \/ CreateInstanceAny

Spec == Init /\ [][Next]_vars

\* ------------------------------------------------------------ observations
\* what a caller reads through the handles and views it holds
storage == <<libPool, skelPool, instPool, clipPool, curvePool, matrixPool,
             numKeys, valuePool, registry>>

InRange(v, size) == v.off >= 0 /\ v.len >= 0 /\ SliceEnd(v) <= size

LiveLibs == LiveSlots(libPool)
LiveSkels == LiveSlots(skelPool)

\* the clips of the library in slot lib, read through its Clips view (none
\* when the view leaves the pool)
ClipsOf(lib) ==
    IF InRange(libPool.slots[lib].Clips, Len(clipPool))
    THEN Through(clipPool, libPool.slots[lib].Clips) ELSE <<>>

\* the floats a view into the value pool designates
Floats(v) ==
    IF \A k \in 1..v.len : (v.off + k - 1) \in DOMAIN valuePool
    THEN [k \in 1..v.len |-> valuePool[v.off + k - 1]] ELSE <<>>

KeysOf(lib) == Floats(libPool.slots[lib].Keys)

\* the key floats of each clip of a library, read through the clips' Keys views
ClipKeysOf(lib) == [c \in 1..Len(ClipsOf(lib)) |-> Floats(ClipsOf(lib)[c].Keys)]

\* the curve records of each clip of a library, read through the Curves views
ClipCurvesOf(lib) ==
    [c \in 1..Len(ClipsOf(lib)) |->
        IF InRange(ClipsOf(lib)[c].Curves, Len(curvePool))
        THEN Through(curvePool, ClipsOf(lib)[c].Curves) ELSE <<>>]

\* every view of a library is inside its pool
ViewsInRange(lib) ==
    /\ InRange(libPool.slots[lib].Clips, Len(clipPool))
    /\ InRange(libPool.slots[lib].Curves, Len(curvePool))
    /\ InRange(libPool.slots[lib].Keys, numKeys)
    /\ \A c \in 1..Len(ClipsOf(lib)) :
        /\ InRange(ClipsOf(lib)[c].Curves, Len(curvePool))
        /\ InRange(ClipsOf(lib)[c].Keys, numKeys)

\* the five views of a library: its own three and its clips' two
ViewsOf(lib) ==
    [Clips |-> libPool.slots[lib].Clips,
     Curves |-> libPool.slots[lib].Curves,
     Keys |-> libPool.slots[lib].Keys,
     ClipCurves |-> [c \in 1..Len(ClipsOf(lib)) |-> ClipsOf(lib)[c].Curves],
     ClipKeys |-> [c \in 1..Len(ClipsOf(lib)) |-> ClipsOf(lib)[c].Keys]]

\* the library slots destroy(label) is about to destroy
LibsUnder(label) ==
    {i \in LiveLibs : \E e \in Range(registry) :
        RegMatches(e, label) /\ e.id = libPool.slots[i].Id}

\* the checks of the library builder as the design states them
WellFormed(s) == ~CurveNumberMismatch(s)
FitsPools(s) ==
    /\ Len(clipPool) + Len(s.Clips) <= ClipPoolCapacity
    /\ Len(curvePool) + Len(s.Clips) * Len(s.CurveLayout) <= CurvePoolCapacity
    /\ numKeys + libNumKeys(s) <= KeyPoolCapacity

\* ================================================================== claims

\* C1: a createLibrary call with an unregistered locator and a well-formed
\* setup returns a valid handle exactly when the clips, the |clips|*|layout|
\* curves and the keys it adds fit the three pools, and an invalid handle
\* when any of the three does not fit.
C1_FitsExactly ==
    [][\A name \in Locators, n \in 1..Len(LibSetups) :
        (/\ createLibrary(name, n)
         /\ ~IsValidId(RegLookup(registry, name))
         /\ WellFormed(LibSetups[n]))
        => /\ ret'.op = "createLibrary"
           /\ IsValidId(ret'.result) <=> FitsPools(LibSetups[n])]_vars

\* C3: no pool ever holds more than its capacity.
C3_PoolsWithinCapacity ==
    /\ Len(clipPool) <= ClipPoolCapacity
    /\ Len(curvePool) <= CurvePoolCapacity
    /\ Len(matrixPool) <= MatrixPoolCapacity
    /\ numKeys <= KeyPoolCapacity

\* the clips' non-empty Keys views from clip c on start at cursor and follow
\* each other up to end
RECURSIVE KeysBackToBack(_, _, _, _)
KeysBackToBack(clips, c, cursor, end) ==
    IF c > Len(clips) THEN cursor = end
    ELSE IF clips[c].Keys.len = 0 THEN KeysBackToBack(clips, c + 1, cursor, end)
    ELSE /\ clips[c].Keys.off = cursor
         /\ KeysBackToBack(clips, c + 1, cursor + clips[c].Keys.len, end)

\* C9: every live library's Curves view has |Clips| * |CurveLayout| elements,
\* its clips' Curves views tile it in clip order with |CurveLayout| elements
\* each, and its clips' non-empty Keys views tile its Keys view in clip order
\* (so their lengths sum to |Keys|).
C9_LibraryLayout ==
    \A lib \in LiveLibs :
        LET L == libPool.slots[lib]
            nLayout == Len(L.CurveLayout)
        IN /\ InRange(L.Clips, Len(clipPool))
           /\ InRange(L.Curves, Len(curvePool))
           /\ L.Curves.len = L.Clips.len * nLayout
           /\ \A c \in 1..Len(ClipsOf(lib)) :
                ClipsOf(lib)[c].Curves = MakeSlice(L.Curves.off + (c - 1) * nLayout, nLayout)
           /\ SumSeq([c \in 1..Len(ClipsOf(lib)) |-> ClipsOf(lib)[c].Keys.len]) = L.Keys.len
           /\ KeysBackToBack(ClipsOf(lib), 1, L.Keys.off, SliceEnd(L.Keys))

\* a library with two keyed clips that was moved down by a destroy
C9_Witness ==
    /\ ret.op = "destroy"
    /\ \E lib \in LiveLibs :
        /\ libPool.slots[lib].Id.UniqueStamp > 1
        /\ libPool.slots[lib].Clips.off = 0
        /\ Len(ClipsOf(lib)) = 2
        /\ \A c \in 1..2 : ClipsOf(lib)[c].Keys.len > 0

KeyIndices(v) == {a \in 0..(KeyPoolCapacity + SamplePoolCapacity) :
                    a >= v.off /\ a < SliceEnd(v)}

\* C10: the Keys views of the live libraries lie inside [0, numKeys), do not
\* overlap, and together cover [0, numKeys).
C10_KeysCoverLivePrefix ==
    /\ \A lib \in LiveLibs : InRange(libPool.slots[lib].Keys, numKeys)
    /\ \A i, j \in LiveLibs :
        i # j => KeyIndices(libPool.slots[i].Keys)
                   \cap KeyIndices(libPool.slots[j].Keys) = {}
    /\ UNION {KeyIndices(libPool.slots[lib].Keys) : lib \in LiveLibs}
         = 0..(numKeys - 1)

\* two keyed libraries left after a destroy moved keys down
C10_Witness ==
    /\ ret.op = "destroy"
    /\ numKeys > 0
    /\ \E a \in DOMAIN valuePool : a >= numKeys /\ a < KeyPoolCapacity
                                    /\ valuePool[a] # Garbage
    /\ \E i, j \in LiveLibs :
        /\ i # j
        /\ libPool.slots[i].Keys.len > 0
        /\ libPool.slots[j].Keys.len > 0
        /\ libPool.slots[j].Id.UniqueStamp > libPool.slots[i].Id.UniqueStamp
        /\ libPool.slots[i].Id.UniqueStamp > 1

\* C2: a createLibrary or createSkeleton call that returns the invalid handle
\* leaves pools, key contents, handle-pool slots and registry as they were.
C2_FailedCreateChangesNothing ==
    [][(/\ ret'.op \in {"createLibrary", "createSkeleton"}
        /\ ret'.result = InvalidId)
       => UNCHANGED storage]_vars

\* a library was refused with resources of both kinds stored
C2_Witness ==
    /\ ret = Returned("createLibrary", InvalidId)
    /\ Len(clipPool) > 0
    /\ Len(matrixPool) > 0

\* the libraries whose clips are stored below / above those of library d
StoredBefore(d) ==
    {i \in LiveLibs : libPool.slots[i].Clips.off < libPool.slots[d].Clips.off}
StoredAfter(d) ==
    {i \in LiveLibs : libPool.slots[i].Clips.off > libPool.slots[d].Clips.off}

Lowered(v, n) == [v EXCEPT !.off = @ - n]

\* C4 as stated: when a destroy removes one library d that has libraries
\* stored before and after it, the three pools shrink by d's footprint, all
\* five views of the libraries before d stay as they are, and all five views
\* of the libraries after d keep their length and move down by d's size in
\* the pool they designate.
C4_EveryViewLowered ==
    [][\A label \in {LabelAll} \cup 0..MaxLabels, d \in DOMAIN libPool.slots :
        (/\ ret'.op = "destroy"
         /\ LibsUnder(label) = {d}
         /\ StoredBefore(d) # {}
         /\ StoredAfter(d) # {}
         /\ destroy(label))
        => LET D == libPool.slots[d] IN
           /\ Len(clipPool') = Len(clipPool) - D.Clips.len
           /\ Len(curvePool') = Len(curvePool) - D.Curves.len
           /\ numKeys' = numKeys - D.Keys.len
           /\ \A i \in StoredBefore(d) : ViewsOf(i)' = ViewsOf(i)
           /\ \A i \in StoredAfter(d) :
                ViewsOf(i)' =
                  [Clips |-> Lowered(ViewsOf(i).Clips, D.Clips.len),
                   Curves |-> Lowered(ViewsOf(i).Curves, D.Curves.len),
                   Keys |-> Lowered(ViewsOf(i).Keys, D.Keys.len),
                   ClipCurves |-> [c \in DOMAIN ViewsOf(i).ClipCurves |->
                       Lowered(ViewsOf(i).ClipCurves[c], D.Curves.len)],
                   ClipKeys |-> [c \in DOMAIN ViewsOf(i).ClipKeys |->
                       Lowered(ViewsOf(i).ClipKeys[c], D.Keys.len)]]]_vars

\* C4 amended: as C4, but the Keys view of a clip without animated curves is
\* the empty default view at offset 0 and stays there.
C4_NonEmptyViewsLowered ==
    [][\A label \in {LabelAll} \cup 0..MaxLabels, d \in DOMAIN libPool.slots :
        (/\ ret'.op = "destroy"
         /\ LibsUnder(label) = {d}
         /\ StoredBefore(d) # {}
         /\ StoredAfter(d) # {}
         /\ destroy(label))
        => LET D == libPool.slots[d] IN
           /\ Len(clipPool') = Len(clipPool) - D.Clips.len
           /\ Len(curvePool') = Len(curvePool) - D.Curves.len
           /\ numKeys' = numKeys - D.Keys.len
           /\ \A i \in StoredBefore(d) : ViewsOf(i)' = ViewsOf(i)
           /\ \A i \in StoredAfter(d) :
                ViewsOf(i)' =
                  [Clips |-> Lowered(ViewsOf(i).Clips, D.Clips.len),
                   Curves |-> Lowered(ViewsOf(i).Curves, D.Curves.len),
                   Keys |-> Lowered(ViewsOf(i).Keys, D.Keys.len),
                   ClipCurves |-> [c \in DOMAIN ViewsOf(i).ClipCurves |->
                       Lowered(ViewsOf(i).ClipCurves[c], D.Curves.len)],
                   ClipKeys |-> [c \in DOMAIN ViewsOf(i).ClipKeys |->
                       IF ViewsOf(i).ClipKeys[c].len = 0
                       THEN EmptySlice
                       ELSE Lowered(ViewsOf(i).ClipKeys[c], D.Keys.len)]]]_vars

\* the middle one of three libraries was destroyed: key floats were moved and
\* the library stored after it now follows the one stored before it
C4_Witness ==
    /\ ret.op = "destroy"
    /\ Cardinality(LiveLibs) = 2
    /\ libPool.uniqueCounter = 3
    /\ \E i, j \in LiveLibs :
        /\ libPool.slots[i].Id.UniqueStamp = 1
        /\ libPool.slots[j].Id.UniqueStamp = 3
        /\ libPool.slots[j].Clips.off = SliceEnd(libPool.slots[i].Clips)
        /\ libPool.slots[j].Keys.len > 0
    /\ \E a \in DOMAIN valuePool : a >= numKeys /\ a < KeyPoolCapacity
                                    /\ valuePool[a] # Garbage

\* C5: the floats read through a live library's Keys view and through its
\* clips' Keys views change only in a writeKeys on that library, which makes
\* them the floats of the buffer and writes nowhere else.
C5_KeysChangeOnlyByWriteKeys ==
    [][/\ \A lib \in LiveLibs :
            (/\ lib \in LiveLibs'
             /\ libPool'.slots[lib].Id = libPool.slots[lib].Id
             /\ \/ KeysOf(lib)' # KeysOf(lib)
                \/ ClipKeysOf(lib)' # ClipKeysOf(lib))
            => \E buf \in KeyBuffers(lib, libPool.slots[lib].Keys.len) :
                    writeKeys(lib, buf)
       /\ \A lib \in LiveLibs :
            \A buf \in KeyBuffers(lib, libPool.slots[lib].Keys.len) :
                (ret'.op = "writeKeys" /\ writeKeys(lib, buf))
                => /\ KeysOf(lib)' = buf
                   /\ \A a \in DOMAIN valuePool :
                        (a < libPool.slots[lib].Keys.off
                            \/ a >= SliceEnd(libPool.slots[lib].Keys))
                        => valuePool'[a] = valuePool[a]]_vars

\* a library holds uploaded keys and was moved down by a destroy, next to
\* another library that still holds its default keys
C5_Witness ==
    /\ ret.op = "destroy"
    /\ \E i, j \in LiveLibs :
        /\ i # j
        /\ libPool.slots[i].Id.UniqueStamp > 1
        /\ libPool.slots[i].Keys.len > 0
        /\ libPool.slots[i].Keys.off = 0
        /\ KeysOf(i) \in KeyBuffers(i, libPool.slots[i].Keys.len)
        /\ libPool.slots[j].Keys.len > 0
        /\ KeysOf(j)[1] = 1

\* C7: createLibrary with the locator of a live library returns that
\* library's handle and changes no pool, view, slot or registry entry.
C7_SameLocatorSameHandle ==
    [][\A name \in Locators, n \in 1..Len(LibSetups), lib \in LiveLibs :
        (/\ ret'.op \in {"createLibrary", "abort"}
         /\ libPool.slots[lib].Name = name
         /\ createLibrary(name, n))
        => /\ ret' = Returned("createLibrary", libPool.slots[lib].Id)
           /\ UNCHANGED storage]_vars

\* the second call came under another label than the one the library has
C7_Witness ==
    /\ ret.op = "createLibrary"
    /\ \E lib \in LiveLibs, e \in Range(registry) :
        /\ ret.result = libPool.slots[lib].Id
        /\ e.id = ret.result
        /\ e.label # PeekLabel

\* the views of a skeleton
SkelViewsOf(skel) ==
    [Matrices |-> skelPool.slots[skel].Matrices,
     BindPose |-> skelPool.slots[skel].BindPose,
     InvBindPose |-> skelPool.slots[skel].InvBindPose]

\* the registry entries destroy(label) removes
EntriesUnder(label) == {e \in Range(registry) : RegMatches(e, label)}

\* the resource a create call has just returned is the only one under label
OnlyCreatedUnder(label, op, type) ==
    /\ ret.op = op
    /\ IsValidId(ret.result)
    /\ ret.result.Type = type
    /\ {e.id : e \in EntriesUnder(label)} = {ret.result}

LookupHandle(id) ==
    CASE id.Type = resTypeLib -> PoolLookup(libPool, id)
      [] id.Type = resTypeSkeleton -> PoolLookup(skelPool, id)
      [] id.Type = resTypeInstance -> PoolLookup(instPool, id)

\* what a caller reads of the resource behind a handle
ResourceOf(id) ==
    LET slot == LookupHandle(id) IN
    CASE id.Type = resTypeLib ->
            [Name |-> libPool.slots[slot].Name,
             NumClips |-> libPool.slots[slot].Clips.len,
             ClipNames |-> [c \in 1..Len(ClipsOf(slot)) |-> ClipsOf(slot)[c].Name],
             ClipLengths |-> [c \in 1..Len(ClipsOf(slot)) |-> ClipsOf(slot)[c].Length],
             Curves |-> ClipCurvesOf(slot)]
      [] id.Type = resTypeSkeleton ->
            [Name |-> skelPool.slots[slot].Name,
             NumBones |-> skelPool.slots[slot].NumBones,
             ParentIndices |-> skelPool.slots[slot].ParentIndices]
      [] id.Type = resTypeInstance ->
            [library |-> instPool.slots[slot].library,
             skeleton |-> instPool.slots[slot].skeleton]

RECURSIVE AnimatedStride(_, _, _)
AnimatedStride(layout, curveSetups, k) ==
    IF k = 0 THEN 0
    ELSE AnimatedStride(layout, curveSetups, k - 1)
         + (IF curveSetups[k].Static THEN 0 ELSE Stride(layout[k]))

\* the slot of the library a createLibrary step has just built
Built(lib) ==
    /\ ret'.op = "createLibrary"
    /\ registry' # registry
    /\ ret'.result.SlotIndex = lib

AllStatic(s) ==
    \A c \in 1..Len(s.Clips) : \A i \in 1..Len(s.Clips[c].Curves) :
        s.Clips[c].Curves[i].Static

\* C11: in a library createLibrary has just built, every clip's KeyStride is
\* the sum of the format strides of its non-static curves and its Keys view
\* has KeyStride * Length floats; a non-static curve has its format stride as
\* KeyStride and the strides of the non-static curves before it as KeyIndex; a
\* static curve has KeyStride 0 and KeyIndex InvalidIndex; an all-static
\* library has an empty Keys view and leaves numKeys as it was.
C11_StridesAndKeyIndices ==
    [][\A name \in Locators, n \in 1..Len(LibSetups), lib \in DOMAIN libPool.slots :
        (createLibrary(name, n) /\ Built(lib))
        => LET s == LibSetups[n] IN
           /\ Len(ClipsOf(lib)') = Len(s.Clips)
           /\ \A c \in 1..Len(s.Clips) :
                LET cs == s.Clips[c].Curves IN
                /\ ClipsOf(lib)'[c].Length = s.Clips[c].Length
                /\ ClipsOf(lib)'[c].KeyStride = AnimatedStride(s.CurveLayout, cs, Len(cs))
                /\ ClipsOf(lib)'[c].Keys.len
                     = ClipsOf(lib)'[c].KeyStride * ClipsOf(lib)'[c].Length
                /\ Len(ClipCurvesOf(lib)'[c]) = Len(cs)
                /\ \A i \in 1..Len(cs) :
                     IF cs[i].Static
                     THEN /\ ClipCurvesOf(lib)'[c][i].Static
                          /\ ClipCurvesOf(lib)'[c][i].KeyStride = 0
                          /\ ClipCurvesOf(lib)'[c][i].KeyIndex = InvalidIndex
                     ELSE /\ ~ClipCurvesOf(lib)'[c][i].Static
                          /\ ClipCurvesOf(lib)'[c][i].KeyStride = Stride(s.CurveLayout[i])
                          /\ ClipCurvesOf(lib)'[c][i].KeyIndex
                               = AnimatedStride(s.CurveLayout, cs, i - 1)
           /\ AllStatic(s) => /\ libPool'.slots[lib].Keys.len = 0
                              /\ numKeys' = numKeys]_vars

\* a library whose clip has a static curve between two animated ones was built
\* behind another library's clips and curves
C11_Witness ==
    /\ ret.op = "createLibrary"
    /\ \E lib \in LiveLibs :
        /\ ret.result = libPool.slots[lib].Id
        /\ libPool.slots[lib].Clips.off > 0
        /\ libPool.slots[lib].Curves.off > 0
        /\ Len(ClipCurvesOf(lib)) = 1
        /\ Len(ClipCurvesOf(lib)[1]) = 3
        /\ ClipCurvesOf(lib)[1][2].Static
        /\ ClipCurvesOf(lib)[1][3].KeyIndex = 1

\* the first stride components of the static values of a clip setup's
\* non-static curves, in layout order
RECURSIVE DefaultRow(_, _, _)
DefaultRow(layout, curveSetups, i) ==
    IF i > Len(curveSetups) THEN <<>>
    ELSE (IF curveSetups[i].Static THEN <<>>
          ELSE SubSeq(curveSetups[i].StaticValue, 1, Stride(layout[i])))
         \o DefaultRow(layout, curveSetups, i + 1)

\* C12: right after createLibrary has built a library, every row of every clip
\* with KeyStride > 0 holds the first stride components of the static values
\* of the clip's non-static curves in layout order, and no float outside the
\* new library's Keys view has changed.
C12_DefaultFill ==
    [][\A name \in Locators, n \in 1..Len(LibSetups), lib \in DOMAIN libPool.slots :
        (createLibrary(name, n) /\ Built(lib))
        => LET s == LibSetups[n] IN
           /\ \A c \in 1..Len(s.Clips) :
                ClipsOf(lib)'[c].KeyStride > 0
                => \A r \in 0..(s.Clips[c].Length - 1) :
                     SubSeq(ClipKeysOf(lib)'[c],
                            r * ClipsOf(lib)'[c].KeyStride + 1,
                            (r + 1) * ClipsOf(lib)'[c].KeyStride)
                       = DefaultRow(s.CurveLayout, s.Clips[c].Curves, 1)
           /\ \A a \in DOMAIN valuePool :
                (a < libPool'.slots[lib].Keys.off
                    \/ a >= SliceEnd(libPool'.slots[lib].Keys))
                => valuePool'[a] = valuePool[a]]_vars

\* a library with two animated curves was filled behind the uploaded keys of
\* another library
C12_Witness ==
    /\ ret.op = "createLibrary"
    /\ \E lib \in LiveLibs, other \in LiveLibs :
        /\ ret.result = libPool.slots[lib].Id
        /\ other # lib
        /\ libPool.slots[other].Keys.len > 0
        /\ KeysOf(other) \in KeyBuffers(other, libPool.slots[other].Keys.len)
        /\ libPool.slots[lib].Keys.off > 0
        /\ KeysOf(lib) = <<1, 9, 10>>

\* C13: every live skeleton with N bones has a Matrices view of 2N matrices
\* inside the matrix pool, its BindPose view is the first N of them and its
\* InvBindPose view the last N.
C13_SkeletonViews ==
    \A skel \in LiveSkels :
        LET S == skelPool.slots[skel] IN
        /\ S.Matrices.len = 2 * S.NumBones
        /\ InRange(S.Matrices, Len(matrixPool))
        /\ S.BindPose = MakeSlice(S.Matrices.off, S.NumBones)
        /\ S.InvBindPose = MakeSlice(S.Matrices.off + S.NumBones, S.NumBones)

\* C14: every discard call returns, and leaves clipPool, curvePool and
\* matrixPool empty, numKeys at 0 and the manager invalid.
C14_DiscardEmptiesAll ==
    [][discard => /\ ret'.op = "discard"
                  /\ clipPool' = <<>>
                  /\ curvePool' = <<>>
                  /\ matrixPool' = <<>>
                  /\ numKeys' = 0
                  /\ ~isValid']_vars

\* the frame loop's calls, as steps
AddStep == \E inst \in DOMAIN instPool.slots : addActiveInstance(inst)
EvaluateStep == \E frameDur \in FrameDurations : evaluate(frameDur)

\* C15: within the contract, newFrame is taken only when not in a frame and
\* enters the frame, addActiveInstance and evaluate are taken only in a frame,
\* evaluate leaves it and no other call changes inFrame; so exactly one
\* newFrame lies between an evaluate, or an addActiveInstance, and the
\* evaluate before it.
C15_FrameLoopTwoStates ==
    [][fault' = "none" =>
        /\ newFrame => ~inFrame /\ inFrame'
        /\ AddStep => inFrame /\ inFrame' /\ framesOpened = 1
        /\ EvaluateStep => inFrame /\ ~inFrame' /\ framesOpened = 1
        /\ inFrame' # inFrame => newFrame \/ EvaluateStep
        /\ framesOpened' = IF inFrame' THEN 1 ELSE 0]_vars

\* a second frame with two active instances was evaluated
C15_Witness ==
    /\ fault = "none"
    /\ ret.op = "evaluate"
    /\ ~inFrame
    /\ curTime = 2
    /\ Len(activeInstances) = 2

\* the SampleStride of the library an instance plays
StrideOf(inst) == libPool.slots[instPool.slots[inst].library].SampleStride

\* C16: addActiveInstance returns false and leaves the active list,
\* numSamples and every instance as they were when the active list holds
\* MaxNumActiveInstances entries or numSamples plus the library's SampleStride
\* exceeds SamplePoolCapacity; otherwise it returns true, appends the
\* instance, gives it the view [numSamples, numSamples + SampleStride) of the
\* sample region and advances numSamples by SampleStride.
C16_AddActiveInstance ==
    [][\A inst \in DOMAIN instPool.slots :
        addActiveInstance(inst) /\ fault' = "none" =>
            IF \/ Len(activeInstances) = MaxNumActiveInstances
               \/ numSamples + StrideOf(inst) > SamplePoolCapacity
            THEN /\ ret' = Returned("addActiveInstance", FALSE)
                 /\ UNCHANGED <<activeInstances, numSamples, instPool>>
            ELSE /\ ret' = Returned("addActiveInstance", TRUE)
                 /\ activeInstances' = Append(activeInstances, inst)
                 /\ instPool'.slots[inst].samples =
                        [off |-> KeyPoolCapacity + numSamples,
                         len |-> StrideOf(inst)]
                 /\ numSamples' = numSamples + StrideOf(inst)
                 /\ \A other \in DOMAIN instPool.slots \ {inst} :
                        instPool'.slots[other] = instPool.slots[other]]_vars

\* a call was refused for the sample pool alone
C16_Witness ==
    /\ fault = "none"
    /\ ret = Returned("addActiveInstance", FALSE)
    /\ Len(activeInstances) < MaxNumActiveInstances
    /\ numSamples < SamplePoolCapacity

\* a request that fills the sample region exactly was served
C16_ExactFill ==
    /\ fault = "none"
    /\ ret = Returned("addActiveInstance", TRUE)
    /\ numSamples = SamplePoolCapacity

\* a call was refused for the full active list alone
C16_ListFull ==
    /\ fault = "none"
    /\ ret = Returned("addActiveInstance", FALSE)
    /\ Len(activeInstances) = MaxNumActiveInstances
    /\ numSamples + 1 <= SamplePoolCapacity

\* the value pool indices a view covers
Covered(v) == {a \in 0..(KeyPoolCapacity + SamplePoolCapacity - 1) :
                 a >= v.off /\ a < SliceEnd(v)}

\* C17: inside a frame the sample views handed out since newFrame are pairwise
\* disjoint, lie in the sample region of the value pool and not in the key
\* region, and numSamples is the sum of their lengths and at most
\* SamplePoolCapacity.
C17_FrameViewsDisjoint ==
    inFrame /\ fault = "none" =>
        /\ \A i, j \in 1..Len(frameViews) :
              i # j => Covered(frameViews[i]) \cap Covered(frameViews[j]) = {}
        /\ \A i \in 1..Len(frameViews) :
              /\ frameViews[i].off >= KeyPoolCapacity
              /\ SliceEnd(frameViews[i]) <= KeyPoolCapacity + SamplePoolCapacity
              /\ Cardinality(Covered(frameViews[i])) = frameViews[i].len
        /\ Len(frameViews) = Len(activeInstances)
        /\ \A i \in 1..Len(activeInstances) :
              \E j \in 1..Len(frameViews) :
                  instPool.slots[activeInstances[i]].samples = frameViews[j]
        /\ numSamples = SumSeq([i \in 1..Len(frameViews) |-> frameViews[i].len])
        /\ numSamples <= SamplePoolCapacity

\* two instances share the whole sample region
C17_Witness ==
    /\ inFrame
    /\ fault = "none"
    /\ Len(frameViews) = 2
    /\ activeInstances[1] # activeInstances[2]
    /\ numSamples = SamplePoolCapacity

\* C18: within the contract curTime never decreases; only evaluate changes
\* it, by adding its frame duration.
C18_CurTimeNonDecreasing ==
    [][fault' = "none" =>
        /\ curTime' >= curTime
        /\ curTime' # curTime =>
              \E frameDur \in FrameDurations :
                  evaluate(frameDur) /\ curTime' = curTime + frameDur]_vars

\* only evaluate changes curTime, by adding its frame duration
C18_OnlyEvaluateAdds ==
    [][fault' = "none" /\ curTime' # curTime =>
          \E frameDur \in FrameDurations :
              evaluate(frameDur) /\ curTime' = curTime + frameDur]_vars

\* C19: the id a play call returns for a job the sequencer took is not
\* InvalidAnimJobId and is greater than every id returned for a job before.
C19_JobIdsIncrease ==
    [][\A inst \in DOMAIN instPool.slots, clipIndex \in 0..1 :
        play(inst, clipIndex, TRUE) =>
            /\ ret'.result # InvalidAnimJobId
            /\ \A id \in issuedJobIds : ret'.result > id]_vars

\* C20: createInstance with a library handle that resolves to no valid
\* library returns the invalid handle and leaves the instance pool and the
\* registry as they were.
C20_UnknownLibraryRecoverable ==
    [][\A libId \in LibHandles :
        createInstance(libId, InvalidId) /\ PoolLookup(libPool, libId) = InvalidIndex
            => /\ ret' = Returned("createInstance", InvalidId)
               /\ instPool' = instPool
               /\ registry' = registry
               /\ fault' = "none"]_vars

LiveInsts == LiveSlots(instPool)

\* C21: newFrame empties the active list, sets numSamples to 0 and resets the
\* samples and skinMatrices views of the instances that were active; in a
\* frame an instance has a non-empty samples view only if it is in the active
\* list and the view is one handed out in this frame.
C21_NewFrameResetsViews ==
    [][fault' = "none" =>
        /\ newFrame =>
              /\ activeInstances' = <<>>
              /\ numSamples' = 0
              /\ \A inst \in Range(activeInstances) :
                    /\ instPool'.slots[inst].samples = EmptySlice
                    /\ instPool'.slots[inst].skinMatrices = EmptySlice
        /\ inFrame' =>
              \A inst \in LiveInsts' :
                  instPool'.slots[inst].samples.len > 0 =>
                      /\ inst \in Range(activeInstances')
                      /\ instPool'.slots[inst].samples \in Range(frameViews')]_vars

\* a frame was opened after the instances' samples of earlier frames were
\* written over the whole sample region
C21_Witness ==
    /\ fault = "none"
    /\ ret.op = "newFrame"
    /\ inFrame
    /\ Cardinality(LiveInsts) = 2
    /\ \A inst \in LiveInsts : instPool.slots[inst].samples = EmptySlice
    /\ \A a \in Covered(samples) : valuePool[a] = Sampled

\* C22: the ClipIndexMap of every live library maps each clip name to the
\* position, counted from the start of the library's Clips view, of the clip
\* with that name.
C22_ClipIndexMapRelative ==
    \A lib \in LiveLibs :
        \A e \in libPool.slots[lib].ClipIndexMap :
            /\ e[2] \in 0..(Len(ClipsOf(lib)) - 1)
            /\ ClipsOf(lib)[e[2] + 1].Name = e[1]

\* C23: the library of every live instance is a live, valid library, and its
\* skeleton, when it has one, a live, valid skeleton.
C23_InstanceRefsValid ==
    fault = "none" =>
        \A inst \in LiveInsts :
            LET I == instPool.slots[inst] IN
            /\ I.library \in LiveLibs
            /\ libPool.slots[I.library].State = "Valid"
            /\ I.skeleton # InvalidIndex =>
                  /\ I.skeleton \in LiveSkels
                  /\ skelPool.slots[I.skeleton].State = "Valid"

\* C24: when newFrame or evaluate is called within the contract, every entry
\* of the active list is a live instance with a library.
C24_ActiveInstancesLive ==
    [][\/ ~inFrame /\ newFrame
       \/ inFrame /\ (\E frameDur \in {0, 1} : evaluate(frameDur)) =>
          \A i \in 1..Len(activeInstances) :
              /\ activeInstances[i] \in LiveInsts
              /\ instPool.slots[activeInstances[i]].library # InvalidIndex]_vars

\* C25: a setup that follows a discard leaves the manager outside a frame,
\* with numSamples 0 and an empty active list.
C25_SetupAfterDiscardIdle ==
    [][setup /\ ret.op = "discard" =>
          /\ ~inFrame'
          /\ numSamples' = 0
          /\ activeInstances' = <<>>]_vars

\* C26: the handle the locator lookup of createLibrary finds is a library's
\* and createLibrary returns the invalid handle or a library's; likewise
\* createSkeleton with skeletons.
C26_HandleTypes ==
    [][/\ \A name \in Locators, n \in 1..Len(LibSetups) :
            createLibrary(name, n) =>
                /\ IsValidId(RegLookup(registry, name)) =>
                       RegLookup(registry, name).Type = resTypeLib
                /\ ret'.op = "createLibrary" =>
                       \/ ret'.result = InvalidId
                       \/ ret'.result.Type = resTypeLib
       /\ \A name \in SkelLocators, k \in 1..Len(SkelSetups) :
            createSkeleton(name, k) =>
                /\ IsValidId(RegLookup(registry, name)) =>
                       RegLookup(registry, name).Type = resTypeSkeleton
                /\ ret'.op = "createSkeleton" =>
                       \/ ret'.result = InvalidId
                       \/ ret'.result.Type = resTypeSkeleton]_vars

====
